---- MODULE Spec2Model ----
(***************************************************************************)
(* A model of fan_art_roller.py: the SQLite word table behind Storage,     *)
(* the per-user FSM context (state + data) and the aiogram handlers of     *)
(* the router.  Handlers are coroutines: every handler invocation is a     *)
(* task that runs from one suspension point to the next in one step, and   *)
(* several tasks may be in flight at once (the dispatcher starts one task  *)
(* per update).                                                            *)
(*                                                                         *)
(* Suspension points that are kept apart are the aiosqlite calls (each     *)
(* storage method opens its own connection and runs in a worker thread)    *)
(* and the Telegram API calls that separate two accesses to shared state.  *)
(* The FSM context is the dispatcher's default in-memory storage           *)
(* (Dispatcher() at line 373 is given no storage): its coroutines finish   *)
(* without suspending, so consecutive FSM calls run in one step.           *)
(***************************************************************************)
EXTENDS Bags, FiniteSets, Integers, Sequences, TLC

\* ------------------------------------------------------------ bounds
NumMessages == 2      \* menu messages a user can tap buttons on
MaxTextLen == 3       \* length of a free text message (SpecText)

\* ------------------------------------------------------------ values
Users == {1, 2}
ListNames == {"A", "B"}
Tasks == {1, 2}        \* handler invocations in flight at once
MessageIds == 1..NumMessages
NewMessage == 0       \* render target of message.answer(): a new message
PreviewLimit == 25

\* Characters of message texts.  A text is a sequence of characters.
Chars == {"a", "b", " ", "\n"}
Whitespace == {" ", "\n"}
None == <<"None">>     \* Python's None where a word is expected

\* Byte order of the characters: SQLite's BINARY collation behind ORDER BY.
Ord(c) == CASE c = "\n" -> 10 [] c = " " -> 32 [] c = "a" -> 97 [] c = "b" -> 98

\* ------------------------------------------------------------ str methods
RECURSIVE lstrip(_)
lstrip(s) == IF s # <<>> /\ Head(s) \in Whitespace THEN lstrip(Tail(s)) ELSE s

RECURSIVE rstrip(_)
rstrip(s) ==
    IF s # <<>> /\ s[Len(s)] \in Whitespace
    THEN rstrip(SubSeq(s, 1, Len(s) - 1))
    ELSE s

\* strip that returns its argument as it is.
NoStrip(s) == s

\* str.strip()
strip(s) == rstrip(lstrip(s))

\* str.splitlines(): the text cut at every line break; no empty last line.
RECURSIVE SplitFrom(_, _, _)
SplitFrom(s, cur, acc) ==
    IF s = <<>> THEN (IF cur = <<>> THEN acc ELSE Append(acc, cur))
    ELSE IF Head(s) = "\n" THEN SplitFrom(Tail(s), <<>>, Append(acc, cur))
    ELSE SplitFrom(Tail(s), Append(cur, Head(s)), acc)

splitlines(s) == SplitFrom(s, <<>>, <<>>)

\* [f(x) for x in seq]
MapStrip(seq) == [k \in 1..Len(seq) |-> strip(seq[k])]

\* NonEmpty without its filter: blank lines stay in the batch.
KeepAll(seq) == seq

\* [line for line in lines if line]
NonEmpty(seq) == SelectSeq(seq, LAMBDA l : l # <<>>)

\* lines 248-249 of msg_add
ParseLines(text) == NonEmpty(MapStrip(splitlines(text)))

\* ------------------------------------------------------------ ordering
RECURSIVE LexLess(_, _)
LexLess(s, t) ==
    IF t = <<>> THEN FALSE
    ELSE IF s = <<>> THEN TRUE
    ELSE IF Ord(Head(s)) # Ord(Head(t)) THEN Ord(Head(s)) < Ord(Head(t))
    ELSE LexLess(Tail(s), Tail(t))

\* Least of a descending order: the greatest word.
Greatest(S) == CHOOSE w \in S : \A v \in S \ {w} : LexLess(v, w)

\* The word ORDER BY word puts first.
Least(S) == CHOOSE w \in S : \A v \in S \ {w} : LexLess(w, v)

Repeat(w, n) == [k \in 1..n |-> w]

\* The words of a bag of words in ascending order, each as often as it occurs.
RECURSIVE SortedWords(_)
SortedWords(B) ==
    IF BagToSet(B) = {} THEN <<>>
    ELSE LET w == Least(BagToSet(B))
         IN  Repeat(w, CopiesIn(w, B))
               \o SortedWords([v \in BagToSet(B) \ {w} |-> B[v]])

\* ------------------------------------------------------------ state
VARIABLES
    db,         \* committed rows of table words: a bag of <<user_id, list_name, word>>
    db_writer,  \* the tasks whose connection holds an open write transaction
    fsm_state,  \* FSMContext state of each user: "None" or "waiting_add"
    fsm_data,   \* FSMContext data of each user: a dict
    tasks       \* the handler invocations: locals, position and last render

vars == <<db, db_writer, fsm_state, fsm_data, tasks>>

\* ------------------------------------------------------------ word table
Row(user_id, list_name, word) == <<user_id, list_name, word>>

RowsOf(table, user_id, list_name) ==
    {r \in BagToSet(table) : r[1] = user_id /\ r[2] = list_name}

\* SELECT word FROM words WHERE user_id=? AND list_name=? ORDER BY word
SelectWords(table, user_id, list_name) ==
    SortedWords([w \in {r[3] : r \in RowsOf(table, user_id, list_name)}
                    |-> table[Row(user_id, list_name, w)]])

\* IntegrityError of a table declared without its primary key.
NoPrimaryKey(table, row) == FALSE

\* PRIMARY KEY (user_id, list_name, word): the INSERT of a present key fails.
IntegrityError(table, row) == row \in BagToSet(table)

\* INSERT INTO words(user_id, list_name, word) VALUES(?,?,?)
InsertRow(table, row) ==
    [r \in BagToSet(table) \cup {row} |->
        IF r = row THEN (IF r \in BagToSet(table) THEN table[r] + 1 ELSE 1)
        ELSE table[r]]

\* DELETE FROM words WHERE ...: the table without the rows of S
DeleteRows(table, S) == [r \in BagToSet(table) \ S |-> table[r]]

\* RowCount of a DELETE that always reports one row.
RowCountOne(table, S) == 1

\* cursor.rowcount of a DELETE of the rows of S
RowCount(table, S) == BagCardinality([r \in BagToSet(table) \cap S |-> table[r]])

\* CanWrite of connections that do not exclude each other.
NoWriteLock(t) == TRUE

\* A statement that writes needs SQLite's write lock, which one connection
\* holds from its first write until its commit (or until it is closed).
CanWrite(t) == db_writer = {}

\* ------------------------------------------------------------ FSM context
EmptyDict == [k \in {} |-> ""]

\* dict.update
DictUpdate(d, new) ==
    [k \in (DOMAIN d) \cup (DOMAIN new) |-> IF k \in DOMAIN new THEN new[k] ELSE d[k]]

\* state.clear(): set_state(None) and set_data({})
StateClear(user_id) ==
    /\ fsm_state' = [fsm_state EXCEPT ![user_id] = "None"]
    /\ fsm_data' = [fsm_data EXCEPT ![user_id] = EmptyDict]

\* ------------------------------------------------------------ renders
\* What a handler sends to the chat: the screen text, its keyboard and the
\* message it is written to.
NoRender ==
    [kind |-> "none", list_name |-> "", count |-> 0, count_b |-> 0,
     words |-> <<>>, suffix |-> "", buttons |-> <<>>, target |-> NewMessage]

\* ------------------------------------------------------------ callback data
\* A callback_data is a sequence of characters, in which a keyword or a list
\* name stands as one character.
\* f"{x}:{y}:{z}": the fields with a colon between them
RECURSIVE Join(_)
Join(fields) ==
    IF Len(fields) = 1 THEN fields[1]
    ELSE fields[1] \o <<":">> \o Join(Tail(fields))

\* str.split(":", maxsplit)
RECURSIVE SplitAt(_, _, _, _)
SplitAt(s, maxsplit, cur, acc) ==
    IF s = <<>> THEN Append(acc, cur)
    ELSE IF Head(s) = ":" /\ maxsplit > 0
    THEN SplitAt(Tail(s), maxsplit - 1, <<>>, Append(acc, cur))
    ELSE SplitAt(Tail(s), maxsplit, Append(cur, Head(s)), acc)

split(s, maxsplit) == SplitAt(s, maxsplit, <<>>, <<>>)

\* The list name that a field of a callback_data spells.
Str(field) == field[1]

DigitChars == <<"0", "1", "2", "3", "4", "5", "6", "7", "8", "9">>

\* f"{i}" of a non-negative int
RECURSIVE DecStr(_)
DecStr(n) ==
    IF n < 10 THEN <<DigitChars[n + 1]>>
    ELSE Append(DecStr(n \div 10), DigitChars[(n % 10) + 1])

IsDigit(c) == \E k \in 1..10 : DigitChars[k] = c
DigitVal(c) == (CHOOSE k \in 1..10 : DigitChars[k] = c) - 1

RECURSIVE DecVal(_)
DecVal(s) ==
    IF s = <<>> THEN 0
    ELSE DecVal(SubSeq(s, 1, Len(s) - 1)) * 10 + DigitVal(s[Len(s)])

Unsigned(s) == IF s # <<>> /\ Head(s) \in {"-", "+"} THEN Tail(s) ELSE s

\* int(s) raises ValueError unless s is an optional sign and decimal digits
ValueError(s) == Unsigned(s) = <<>> \/ \E k \in 1..Len(Unsigned(s)) : ~IsDigit(Unsigned(s)[k])

int(s) == IF s # <<>> /\ Head(s) = "-" THEN 0 - DecVal(Unsigned(s)) ELSE DecVal(Unsigned(s))

Min(x, y) == IF x <= y THEN x ELSE y

\* text_main with kb_main
MainView(a, b, target) ==
    [NoRender EXCEPT !.kind = "main", !.count = Len(a), !.count_b = Len(b),
                     !.buttons = <<Join(<<<<"edit">>, <<"A">>>>), Join(<<<<"edit">>, <<"B">>>>),
                                    <<"roll">>>>,
                     !.target = target]

\* text_edit with kb_edit: the count and the first 25 words
EditView(list_name, words, suffix, target) ==
    [NoRender EXCEPT !.kind = "edit", !.list_name = list_name,
                     !.count = Len(words),
                     !.words = SubSeq(words, 1, Min(Len(words), PreviewLimit)),
                     !.suffix = suffix,
                     !.buttons = <<Join(<<<<"add">>, <<list_name>>>>),
                                    Join(<<<<"remove">>, <<list_name>>>>), <<"back">>>>,
                     !.target = target]

\* cb_add's prompt with kb_cancel
PromptView(list_name, target) ==
    [NoRender EXCEPT !.kind = "prompt", !.list_name = list_name,
                     !.buttons = <<<<"back">>>>, !.target = target]

\* make_remove_kb: one button per word, its text the word and its
\* callback_data do_remove:{list}:{index}, then the back button
make_remove_kb(list_name, words) ==
    [k \in 1..Len(words) |-> Join(<<<<"do_remove">>, <<list_name>>, DecStr(k - 1)>>)]
        \o <<Join(<<<<"remove_back">>, <<list_name>>>>)>>

PickerView(list_name, words, target) ==
    [NoRender EXCEPT !.kind = "picker", !.list_name = list_name, !.words = words,
                     !.buttons = make_remove_kb(list_name, words), !.target = target]

\* cb_roll's two screens
RollView(a, b, target) ==
    [NoRender EXCEPT !.kind = IF a = None \/ a = <<>> \/ b = None \/ b = <<>>
                               THEN "roll_empty" ELSE "roll",
                     !.words = IF a = None \/ a = <<>> \/ b = None \/ b = <<>>
                               THEN <<>> ELSE <<a, b>>,
                     !.buttons = <<Join(<<<<"edit">>, <<"A">>>>), Join(<<<<"edit">>, <<"B">>>>),
                                    <<"roll">>>>,
                     !.target = target]

\* message.answer("Ошибка: ...") of cb_do_remove
ErrorView(what) == [NoRender EXCEPT !.kind = "error", !.suffix = what]

\* ------------------------------------------------------------ tasks
IdleTask ==
    [h |-> "none", pc |-> "done", user |-> 0, list_name |-> "", message_id |-> NewMessage,
     menu_message_id |-> NewMessage, index |-> 0, shown |-> None, text |-> <<>>,
     lines |-> <<>>, pair |-> <<None, None>>,
     i |-> 1, added |-> 0, skipped |-> 0, word |-> None, ok |-> FALSE,
     a |-> <<>>, b |-> <<>>, deleted |-> FALSE, suffix |-> "", error |-> "",
     render |-> NoRender]

Free(t) == tasks[t].pc = "done"

\* The task of a handler that has run to its first suspension point.
Started(h, pc, user_id, message_id, list_name) ==
    [IdleTask EXCEPT !.h = h, !.pc = pc, !.user = user_id, !.message_id = message_id,
                     !.list_name = list_name]

At(t, h, pc) == tasks[t].h = h /\ tasks[t].pc = pc

\* The message a handler's final edit is written to.
Target(task) == IF task.h = "msg_add" THEN task.menu_message_id ELSE task.message_id

Range(seq) == {seq[k] : k \in 1..Len(seq)}

\* ------------------------------------------------------------ Storage
\* Storage.get_words: one SELECT on a connection of its own
get_words(user_id, list_name) == SelectWords(db, user_id, list_name)

\* roll that gives up only when both lists are empty.
roll_both_empty(a, b) ==
    IF a = <<>> /\ b = <<>> THEN {<<None, None>>}
    ELSE {<<x, y>> : x \in (IF a = <<>> THEN {None} ELSE Range(a)),
                     y \in (IF b = <<>> THEN {None} ELSE Range(b))}

\* Storage.roll, once both lists are read: the pairs it can return
roll(a, b) ==
    IF a = <<>> \/ b = <<>> THEN {<<None, None>>}
    ELSE {<<x, y>> : x \in Range(a), y \in Range(b)}

\* ------------------------------------------------------------ text_main, text_edit
\* text_main: get_words(user, "A")
text_main_a(t) ==
    /\ tasks[t].pc = "text_main_a"
    /\ tasks' = [tasks EXCEPT ![t].a = get_words(tasks[t].user, "A"),
                              ![t].pc = "text_main_b"]
    /\ UNCHANGED <<db, db_writer, fsm_state, fsm_data>>

\* text_main: get_words(user, "B"), then the handler sends the main menu
text_main_b(t) ==
    /\ tasks[t].pc = "text_main_b"
    /\ LET b == get_words(tasks[t].user, "B")
       IN  tasks' = [tasks EXCEPT ![t].b = b,
                                  ![t].render = MainView(tasks[t].a, b, Target(tasks[t])),
                                  ![t].pc = "done"]
    /\ UNCHANGED <<db, db_writer, fsm_state, fsm_data>>

\* text_edit: get_words(user, list), then the handler sends the editor view
\* with its own suffix
text_edit(t) ==
    /\ tasks[t].pc = "text_edit"
    /\ LET words == get_words(tasks[t].user, tasks[t].list_name)
       IN  tasks' = [tasks EXCEPT
                ![t].render = EditView(tasks[t].list_name, words, tasks[t].suffix,
                                       Target(tasks[t])),
                ![t].pc = "done"]
    /\ UNCHANGED <<db, db_writer, fsm_state, fsm_data>>

\* ------------------------------------------------------------ menu handlers
cmd_start(t, user_id) ==
    /\ Free(t)
    /\ StateClear(user_id)
    /\ tasks' = [tasks EXCEPT ![t] = Started("cmd_start", "text_main_a", user_id,
                                             NewMessage, "")]
    /\ UNCHANGED <<db, db_writer>>

cmd_menu(t, user_id) ==
    /\ Free(t)
    /\ StateClear(user_id)
    /\ tasks' = [tasks EXCEPT ![t] = Started("cmd_menu", "text_main_a", user_id,
                                             NewMessage, "")]
    /\ UNCHANGED <<db, db_writer>>

cb_back(t, user_id, message_id) ==
    /\ Free(t)
    /\ StateClear(user_id)
    /\ tasks' = [tasks EXCEPT ![t] = Started("cb_back", "text_main_a", user_id,
                                             message_id, "")]
    /\ UNCHANGED <<db, db_writer>>

cb_edit(t, user_id, message_id, list_name) ==
    /\ Free(t)
    /\ StateClear(user_id)
    /\ tasks' = [tasks EXCEPT ![t] = Started("cb_edit", "text_edit", user_id,
                                             message_id, list_name)]
    /\ UNCHANGED <<db, db_writer>>

\* ------------------------------------------------------------ cb_roll
\* cb_roll that ends the session as the menu handlers do.
cb_roll_clearing(t, user_id, message_id) ==
    /\ Free(t)
    /\ StateClear(user_id)
    /\ tasks' = [tasks EXCEPT ![t] = Started("cb_roll", "roll_a", user_id, message_id, "")]
    /\ UNCHANGED <<db, db_writer>>

cb_roll(t, user_id, message_id) ==
    /\ Free(t)
    /\ tasks' = [tasks EXCEPT ![t] = Started("cb_roll", "roll_a", user_id, message_id, "")]
    /\ UNCHANGED <<db, db_writer, fsm_state, fsm_data>>

roll_a(t) ==
    /\ At(t, "cb_roll", "roll_a")
    /\ tasks' = [tasks EXCEPT ![t].a = get_words(tasks[t].user, "A"), ![t].pc = "roll_b"]
    /\ UNCHANGED <<db, db_writer, fsm_state, fsm_data>>

roll_b(t) ==
    /\ At(t, "cb_roll", "roll_b")
    /\ LET b == get_words(tasks[t].user, "B")
       IN  \E pair \in roll(tasks[t].a, b) :
             tasks' = [tasks EXCEPT
                ![t].b = b,
                ![t].pair = pair,
                ![t].render = RollView(pair[1], pair[2], tasks[t].message_id),
                ![t].pc = "done"]
    /\ UNCHANGED <<db, db_writer, fsm_state, fsm_data>>

\* ------------------------------------------------------------ cb_add
cb_add(t, user_id, message_id, list_name) ==
    /\ Free(t)
    /\ tasks' = [tasks EXCEPT ![t] = Started("cb_add", "set_state", user_id,
                                             message_id, list_name)]
    /\ UNCHANGED <<db, db_writer, fsm_state, fsm_data>>

\* SessionData that keeps the values of keys the dict already holds.
SessionDataKeepOld(data, list_name, message_id) ==
    DictUpdate([list_name |-> list_name, menu_message_id |-> message_id], data)

\* state.update_data(list_name=..., menu_message_id=...)
SessionData(data, list_name, message_id) ==
    DictUpdate(data, [list_name |-> list_name, menu_message_id |-> message_id])

\* cb_add_set_state without its update_data: the state is set and the data
\* stay as they are.
cb_add_set_state_only(t) ==
    /\ At(t, "cb_add", "set_state")
    /\ fsm_state' = [fsm_state EXCEPT ![tasks[t].user] = "waiting_add"]
    /\ tasks' = [tasks EXCEPT
            ![t].render = PromptView(tasks[t].list_name, tasks[t].message_id),
            ![t].pc = "done"]
    /\ UNCHANGED <<db, db_writer, fsm_data>>

\* state.set_state(EditStates.waiting_add), state.update_data(...), the prompt
cb_add_set_state(t) ==
    /\ At(t, "cb_add", "set_state")
    /\ fsm_state' = [fsm_state EXCEPT ![tasks[t].user] = "waiting_add"]
    /\ fsm_data' = [fsm_data EXCEPT ![tasks[t].user] =
                        SessionData(@, tasks[t].list_name, tasks[t].message_id)]
    /\ tasks' = [tasks EXCEPT
            ![t].render = PromptView(tasks[t].list_name, tasks[t].message_id),
            ![t].pc = "done"]
    /\ UNCHANGED <<db, db_writer>>

\* ------------------------------------------------------------ msg_add
\* The texts a user submits in Spec.
Texts == { <<"a">>, <<"b", "\n", " ", "a">>, <<" ", "\n">> }

\* All texts of at most MaxTextLen characters (SpecText).
AllTexts == UNION {[1..n -> Chars] : n \in 0..MaxTextLen}

\* The handler is registered for state waiting_add; it reads the session data
\* and cuts the text into lines before its first suspension point.
msg_add(t, user_id, text) ==
    /\ Free(t)
    /\ fsm_state[user_id] = "waiting_add"
    /\ LET data == fsm_data[user_id]
           lines == ParseLines(text)
       IN  tasks' = [tasks EXCEPT ![t] =
             IF {"list_name", "menu_message_id"} \subseteq DOMAIN data
             THEN [Started("msg_add", IF lines = <<>> THEN "delete" ELSE "add_word",
                           user_id, NewMessage, data.list_name)
                      EXCEPT !.menu_message_id = data.menu_message_id, !.text = text,
                             !.lines = lines]
             ELSE [Started("msg_add", "done", user_id, NewMessage, "")
                      EXCEPT !.text = text, !.error = "KeyError"]]
    /\ UNCHANGED <<db, db_writer, fsm_state, fsm_data>>

\* The loop of msg_add after add_word has returned ok: count, next line.
AfterAdd(task, ok) ==
    [task EXCEPT !.ok = ok,
                 !.added = IF ok THEN @ + 1 ELSE @,
                 !.skipped = IF ok THEN @ ELSE @ + 1,
                 !.i = @ + 1,
                 !.pc = IF task.i + 1 > Len(task.lines) THEN "delete" ELSE "add_word"]

\* Storage.add_word up to its commit: strip, the empty check, the INSERT
add_word(t) ==
    /\ At(t, "msg_add", "add_word")
    /\ LET word == strip(tasks[t].lines[tasks[t].i])
           row == Row(tasks[t].user, tasks[t].list_name, word)
       IN  IF word = <<>>
           THEN /\ tasks' = [tasks EXCEPT ![t] = AfterAdd(@, FALSE)]
                /\ UNCHANGED db_writer
           ELSE /\ CanWrite(t)
                /\ IF IntegrityError(db, row)
                   THEN /\ tasks' = [tasks EXCEPT ![t] = AfterAdd(@, FALSE)]
                        /\ UNCHANGED db_writer
                   ELSE /\ tasks' = [tasks EXCEPT ![t].word = word, ![t].pc = "add_commit"]
                        /\ db_writer' = db_writer \cup {t}
    /\ UNCHANGED <<db, fsm_state, fsm_data>>

\* Storage.add_word: db.commit() and return True
add_commit(t) ==
    /\ At(t, "msg_add", "add_commit")
    /\ db' = InsertRow(db, Row(tasks[t].user, tasks[t].list_name, tasks[t].word))
    /\ db_writer' = db_writer \ {t}
    /\ tasks' = [tasks EXCEPT ![t] = AfterAdd(@, TRUE)]
    /\ UNCHANGED <<fsm_state, fsm_data>>

\* msg_add_clear that ends the session only if it is still the one the
\* handler read when it started.
msg_add_clear_own_session(t) ==
    /\ At(t, "msg_add", "delete")
    /\ \E deleted \in BOOLEAN :
         tasks' = [tasks EXCEPT ![t].deleted = deleted, ![t].suffix = "tally",
                                ![t].pc = "text_edit"]
    /\ IF fsm_data[tasks[t].user] =
             SessionData(EmptyDict, tasks[t].list_name, tasks[t].menu_message_id)
       THEN StateClear(tasks[t].user)
       ELSE UNCHANGED <<fsm_state, fsm_data>>
    /\ UNCHANGED <<db, db_writer>>

\* msg_add_clear without the try around message.delete(): the exception of a
\* failed deletion ends the handler.
msg_add_clear_delete_raises(t) ==
    /\ At(t, "msg_add", "delete")
    /\ \/ /\ tasks' = [tasks EXCEPT ![t].deleted = TRUE, ![t].suffix = "tally",
                                     ![t].pc = "text_edit"]
          /\ StateClear(tasks[t].user)
       \/ /\ tasks' = [tasks EXCEPT ![t].deleted = FALSE, ![t].error = "TelegramBadRequest",
                                     ![t].pc = "done"]
          /\ UNCHANGED <<fsm_state, fsm_data>>
    /\ UNCHANGED <<db, db_writer>>

\* msg_add_clear that ends the session only when a word was added.
msg_add_clear_if_added(t) ==
    /\ At(t, "msg_add", "delete")
    /\ \E deleted \in BOOLEAN :
         tasks' = [tasks EXCEPT ![t].deleted = deleted, ![t].suffix = "tally",
                                ![t].pc = "text_edit"]
    /\ IF tasks[t].added > 0 THEN StateClear(tasks[t].user)
                             ELSE UNCHANGED <<fsm_state, fsm_data>>
    /\ UNCHANGED <<db, db_writer>>

\* message.delete() succeeds or raises (ignored); then state.clear()
msg_add_clear(t) ==
    /\ At(t, "msg_add", "delete")
    /\ \E deleted \in BOOLEAN :
         tasks' = [tasks EXCEPT ![t].deleted = deleted, ![t].suffix = "tally",
                                ![t].pc = "text_edit"]
    /\ StateClear(tasks[t].user)
    /\ UNCHANGED <<db, db_writer>>

\* ------------------------------------------------------------ removal
cb_remove_show_list(t, user_id, message_id, list_name) ==
    /\ Free(t)
    /\ tasks' = [tasks EXCEPT ![t] = Started("cb_remove_show_list", "get_words", user_id,
                                             message_id, list_name)]
    /\ UNCHANGED <<db, db_writer, fsm_state, fsm_data>>

\* get_words, then the picker, or the editor view when there is no word
show_list_get_words(t) ==
    /\ At(t, "cb_remove_show_list", "get_words")
    /\ LET words == get_words(tasks[t].user, tasks[t].list_name)
       IN  tasks' = [tasks EXCEPT ![t] =
             IF words = <<>>
             THEN [@ EXCEPT !.suffix = "nothing_to_remove", !.pc = "text_edit"]
             ELSE [@ EXCEPT !.render = PickerView(tasks[t].list_name, words,
                                                 tasks[t].message_id),
                            !.pc = "done"]]
    /\ UNCHANGED <<db, db_writer, fsm_state, fsm_data>>

cb_remove_back(t, user_id, message_id, list_name) ==
    /\ Free(t)
    /\ tasks' = [tasks EXCEPT ![t] = Started("cb_remove_back", "text_edit", user_id,
                                             message_id, list_name)]
    /\ UNCHANGED <<db, db_writer, fsm_state, fsm_data>>

\* cb_do_remove up to get_words: the payload is checked and the index parsed.
\* shown is the text of the button that was pressed (None for a payload that
\* comes from no button).
DoRemoveStarted(user_id, message_id, data, shown) ==
    LET parts == split(data, 2)
    IN  IF Len(parts) < 3
        THEN [Started("cb_do_remove", "done", user_id, message_id, "")
                 EXCEPT !.error = "malformed", !.render = ErrorView("bad_data")]
        ELSE IF ValueError(parts[3])
        THEN [Started("cb_do_remove", "done", user_id, message_id, Str(parts[2]))
                 EXCEPT !.error = "ValueError", !.render = ErrorView("bad_index")]
        ELSE [Started("cb_do_remove", "get_words", user_id, message_id, Str(parts[2]))
                 EXCEPT !.index = int(parts[3]), !.shown = shown]

\* A button of a picker that some handler has rendered is pressed.
cb_do_remove_pressed(t, s, k) ==
    /\ Free(t)
    /\ Free(s)
    /\ tasks[s].render.kind = "picker"
    /\ k \in 1..Len(tasks[s].render.words)
    /\ tasks' = [tasks EXCEPT ![t] =
            DoRemoveStarted(tasks[s].user, tasks[s].render.target,
                            tasks[s].render.buttons[k], tasks[s].render.words[k])]
    /\ UNCHANGED <<db, db_writer, fsm_state, fsm_data>>

\* Payloads that start with do_remove: and come from no button on screen.
RawPayloads ==
    { <<"do_remove", ":", "A">>,
      <<"do_remove", ":", "A", ":", "x">>,
      <<"do_remove", ":", "A", ":", "1", ":", "0">>,
      <<"do_remove", ":", "A", ":", "-", "1">> }

cb_do_remove(t, user_id, message_id, data) ==
    /\ Free(t)
    /\ tasks' = [tasks EXCEPT ![t] = DoRemoveStarted(user_id, message_id, data, None)]
    /\ UNCHANGED <<db, db_writer, fsm_state, fsm_data>>

\* do_remove_get_words without the test index < 0: a negative index counts
\* from the end of the list, as Python's indexing does.
do_remove_get_words_no_negative_test(t) ==
    /\ At(t, "cb_do_remove", "get_words")
    /\ LET words == get_words(tasks[t].user, tasks[t].list_name)
           index == tasks[t].index
       IN  tasks' = [tasks EXCEPT ![t] =
             IF index >= Len(words) \/ index < 0 - Len(words)
             THEN [@ EXCEPT !.suffix = "", !.pc = "text_edit"]
             ELSE [@ EXCEPT !.word = words[(index % Len(words)) + 1],
                            !.pc = "remove_word"]]
    /\ UNCHANGED <<db, db_writer, fsm_state, fsm_data>>

\* get_words and the range check of the index
do_remove_get_words(t) ==
    /\ At(t, "cb_do_remove", "get_words")
    /\ LET words == get_words(tasks[t].user, tasks[t].list_name)
           index == tasks[t].index
       IN  tasks' = [tasks EXCEPT ![t] =
             IF index < 0 \/ index >= Len(words)
             THEN [@ EXCEPT !.suffix = "", !.pc = "text_edit"]
             ELSE [@ EXCEPT !.word = words[index + 1], !.pc = "remove_word"]]
    /\ UNCHANGED <<db, db_writer, fsm_state, fsm_data>>

\* Storage.remove_word up to its commit: strip and the DELETE
remove_word(t) ==
    /\ At(t, "cb_do_remove", "remove_word")
    /\ CanWrite(t)
    /\ LET row == Row(tasks[t].user, tasks[t].list_name, strip(tasks[t].word))
       IN  tasks' = [tasks EXCEPT ![t].word = strip(tasks[t].word),
                                  ![t].ok = RowCount(db, {row}) > 0,
                                  ![t].pc = "remove_commit"]
    /\ db_writer' = db_writer \cup {t}
    /\ UNCHANGED <<db, fsm_state, fsm_data>>

\* Storage.remove_word: db.commit() and return removed
remove_commit(t) ==
    /\ At(t, "cb_do_remove", "remove_commit")
    /\ db' = DeleteRows(db, {Row(tasks[t].user, tasks[t].list_name, tasks[t].word)})
    /\ db_writer' = db_writer \ {t}
    /\ tasks' = [tasks EXCEPT ![t].suffix = IF tasks[t].ok THEN "removed" ELSE "not_found",
                              ![t].pc = "text_edit"]
    /\ UNCHANGED <<fsm_state, fsm_data>>

\* ------------------------------------------------------------ cb_clear
cb_clear(t, user_id, message_id, list_name) ==
    /\ Free(t)
    /\ tasks' = [tasks EXCEPT ![t] = Started("cb_clear", "clear_list", user_id,
                                             message_id, list_name)]
    /\ UNCHANGED <<db, db_writer, fsm_state, fsm_data>>

\* Storage.clear_list up to its commit: the DELETE
clear_list(t) ==
    /\ At(t, "cb_clear", "clear_list")
    /\ CanWrite(t)
    /\ tasks' = [tasks EXCEPT ![t].pc = "clear_commit"]
    /\ db_writer' = db_writer \cup {t}
    /\ UNCHANGED <<db, fsm_state, fsm_data>>

\* clear_commit of a DELETE that leaves list_name out of its WHERE.
clear_commit_all_lists(t) ==
    /\ At(t, "cb_clear", "clear_commit")
    /\ db' = DeleteRows(db, {r \in BagToSet(db) : r[1] = tasks[t].user})
    /\ db_writer' = db_writer \ {t}
    /\ tasks' = [tasks EXCEPT ![t].suffix = "", ![t].pc = "text_edit"]
    /\ UNCHANGED <<fsm_state, fsm_data>>

\* clear_commit of a DELETE that leaves user_id out of its WHERE.
clear_commit_any_user(t) ==
    /\ At(t, "cb_clear", "clear_commit")
    /\ db' = DeleteRows(db, {r \in BagToSet(db) : r[2] = tasks[t].list_name})
    /\ db_writer' = db_writer \ {t}
    /\ tasks' = [tasks EXCEPT ![t].suffix = "", ![t].pc = "text_edit"]
    /\ UNCHANGED <<fsm_state, fsm_data>>

\* Storage.clear_list: db.commit()
clear_commit(t) ==
    /\ At(t, "cb_clear", "clear_commit")
    /\ db' = DeleteRows(db, RowsOf(db, tasks[t].user, tasks[t].list_name))
    /\ db_writer' = db_writer \ {t}
    /\ tasks' = [tasks EXCEPT ![t].suffix = "", ![t].pc = "text_edit"]
    /\ UNCHANGED <<fsm_state, fsm_data>>

\* ------------------------------------------------------------ message routing
\* A message text may hold the command words /start and /menu, each as one
\* character.
\* text.split(maxsplit=1)[0]: the first run of characters that are no
\* whitespace; nothing when there is none
RECURSIVE UpToWhitespace(_)
UpToWhitespace(s) ==
    IF s = <<>> \/ Head(s) \in Whitespace THEN <<>>
    ELSE <<Head(s)>> \o UpToWhitespace(Tail(s))

FirstWord(text) == UpToWhitespace(lstrip(text))

\* The filters CommandStart() and Command("menu")
CommandStart(text) == FirstWord(text) = <<"/start">>
CommandMenu(text) == FirstWord(text) = <<"/menu">>

\* resolve that tries the state filter of msg_add before the command filters.
resolve_state_first(text, state) ==
    IF state = "waiting_add" THEN "msg_add"
    ELSE IF CommandStart(text) THEN "cmd_start"
    ELSE IF CommandMenu(text) THEN "cmd_menu"
    ELSE "none"

\* The message handler the router picks: the first one, in the order of
\* registration, whose filter accepts the message.
resolve(text, state) ==
    IF CommandStart(text) THEN "cmd_start"
    ELSE IF CommandMenu(text) THEN "cmd_menu"
    ELSE IF state = "waiting_add" THEN "msg_add"
    ELSE "none"

\* The texts a user sends in SpecRouter.
RouterTexts == { <<"a">>, <<"/start">>, <<"/menu">>, <<" ", "/start", " ", "a">> }

\* A text message of user_id arrives: the handler is picked and started; a
\* message that no filter accepts is dropped.
message(t, user_id, text) ==
    LET h == resolve(text, fsm_state[user_id])
    IN  CASE h = "cmd_start" -> cmd_start(t, user_id)
          [] h = "cmd_menu" -> cmd_menu(t, user_id)
          [] h = "msg_add" -> msg_add(t, user_id, text)
          [] OTHER -> Free(t) /\ UNCHANGED vars

\* ------------------------------------------------------------ specifications
\* Spec: every handler, the updates of one user handled one after the other.
Init ==
    /\ db = EmptyBag
    /\ db_writer = {}
    /\ fsm_state = [u \in Users |-> "None"]
    /\ fsm_data = [u \in Users |-> EmptyDict]
    /\ tasks = [t \in Tasks |-> IdleTask]

Next ==
    \E t \in {1} :
        \/ text_main_a(t)
        \/ text_main_b(t)
        \/ text_edit(t)
        \/ roll_a(t)
        \/ roll_b(t)
        \/ cb_add_set_state(t)
        \/ add_word(t)
        \/ add_commit(t)
        \/ msg_add_clear(t)
        \/ show_list_get_words(t)
        \/ do_remove_get_words(t)
        \/ remove_word(t)
        \/ remove_commit(t)
        \/ clear_list(t)
        \/ clear_commit(t)
        \/ \E user_id \in {1}, message_id \in MessageIds, list_name \in ListNames :
              \/ cmd_start(t, user_id)
              \/ cmd_menu(t, user_id)
              \/ cb_back(t, user_id, message_id)
              \/ cb_edit(t, user_id, message_id, list_name)
              \/ cb_roll(t, user_id, message_id)
              \/ cb_add(t, user_id, message_id, list_name)
              \/ cb_remove_show_list(t, user_id, message_id, list_name)
              \/ cb_remove_back(t, user_id, message_id, list_name)
              \/ cb_clear(t, user_id, message_id, list_name)
              \/ \E data \in RawPayloads : cb_do_remove(t, user_id, message_id, data)
              \/ \E text \in Texts : msg_add(t, user_id, text)
        \/ \E s \in {1} : \E k \in 1..Len(tasks[s].render.words) :
              cb_do_remove_pressed(t, s, k)

Spec == Init /\ [][Next]_vars

\* SpecStore: two handlers in flight at once on list A of one user: the
\* handlers that write the word table, and the removal picker.
NextStore ==
    \E t \in Tasks :
        \/ text_edit(t)
        \/ cb_add_set_state(t)
        \/ add_word(t)
        \/ add_commit(t)
        \/ msg_add_clear(t)
        \/ show_list_get_words(t)
        \/ do_remove_get_words(t)
        \/ remove_word(t)
        \/ remove_commit(t)
        \/ clear_list(t)
        \/ clear_commit(t)
        \/ cb_add(t, 1, 1, "A")
        \/ cb_remove_show_list(t, 1, 1, "A")
        \/ cb_clear(t, 1, 1, "A")
        \/ cb_do_remove(t, 1, 1, <<"do_remove", ":", "A", ":", "-", "1">>)
        \/ \E text \in Texts : msg_add(t, 1, text)
        \/ \E s \in Tasks : \E k \in 1..Len(tasks[s].render.words) :
              cb_do_remove_pressed(t, s, k)

SpecStore == Init /\ [][NextStore]_vars

\* SpecSession: two handlers in flight at once that start and resolve add
\* sessions of one user, on both lists and from every menu message.
NextSession ==
    \E t \in Tasks :
        \/ text_edit(t)
        \/ cb_add_set_state(t)
        \/ add_word(t)
        \/ add_commit(t)
        \/ msg_add_clear(t)
        \/ \E message_id \in MessageIds, list_name \in ListNames :
              cb_add(t, 1, message_id, list_name)
        \/ msg_add(t, 1, <<"a">>)

SpecSession == Init /\ [][NextSession]_vars

\* SpecText: one text of any content is submitted to a session on list A,
\* which holds the word "b".
ExampleText == <<"a", "\n", "\n", " ", " ", "\n", "a", "\n", "b">>

InitText ==
    /\ db = SetToBag({Row(1, "A", <<"b">>)})
    /\ db_writer = {}
    /\ fsm_state = [u \in Users |-> IF u = 1 THEN "waiting_add" ELSE "None"]
    /\ fsm_data = [u \in Users |-> IF u = 1 THEN SessionData(EmptyDict, "A", 1)
                                            ELSE EmptyDict]
    /\ tasks = [t \in Tasks |-> IdleTask]

NextText ==
    \E t \in {1} :
        \/ text_edit(t)
        \/ add_word(t)
        \/ add_commit(t)
        \/ msg_add_clear(t)
        \/ \E text \in AllTexts \cup {ExampleText} : msg_add(t, 1, text)

SpecText == InitText /\ [][NextText]_vars

\* SpecUsers: two users at once, each with handlers that add, remove, clear,
\* roll and start or end a session on list A; each user holds a word in
\* list B.
InitUsers ==
    /\ db = SetToBag({Row(u, "B", <<"b">>) : u \in Users})
    /\ db_writer = {}
    /\ fsm_state = [u \in Users |-> "None"]
    /\ fsm_data = [u \in Users |-> EmptyDict]
    /\ tasks = [t \in Tasks |-> IdleTask]

NextUsers ==
    \E t \in Tasks :
        \/ text_main_a(t)
        \/ text_main_b(t)
        \/ text_edit(t)
        \/ roll_a(t)
        \/ roll_b(t)
        \/ cb_add_set_state(t)
        \/ add_word(t)
        \/ add_commit(t)
        \/ msg_add_clear(t)
        \/ show_list_get_words(t)
        \/ do_remove_get_words(t)
        \/ remove_word(t)
        \/ remove_commit(t)
        \/ clear_list(t)
        \/ clear_commit(t)
        \/ \E user_id \in Users :
              \/ cb_back(t, user_id, 1)
              \/ cb_roll(t, user_id, 1)
              \/ cb_add(t, user_id, 1, "A")
              \/ cb_remove_show_list(t, user_id, 1, "A")
              \/ cb_clear(t, user_id, 1, "A")
              \/ msg_add(t, user_id, <<"a">>)
        \/ \E s \in Tasks : \E k \in 1..Len(tasks[s].render.words) :
              cb_do_remove_pressed(t, s, k)

SpecUsers == InitUsers /\ [][NextUsers]_vars

\* SpecAdd: Storage.add_word is called once with any text of at most
\* MaxTextLen characters, on list A when it is empty and when it holds "a".
\* The call is the body of msg_add's loop with that text as its one line.
InitAdd ==
    /\ db \in {EmptyBag, SetToBag({Row(1, "A", <<"a">>)})}
    /\ db_writer = {}
    /\ fsm_state = [u \in Users |-> IF u = 1 THEN "waiting_add" ELSE "None"]
    /\ fsm_data = [u \in Users |-> IF u = 1 THEN SessionData(EmptyDict, "A", 1)
                                            ELSE EmptyDict]
    /\ \E word \in AllTexts :
          tasks = [t \in Tasks |->
                      IF t = 1
                      THEN [Started("msg_add", "add_word", 1, NewMessage, "A")
                               EXCEPT !.menu_message_id = 1, !.lines = <<word>>]
                      ELSE IdleTask]

NextAdd ==
    \E t \in {1} :
        \/ add_word(t)
        \/ add_commit(t)

SpecAdd == InitAdd /\ [][NextAdd]_vars

\* SpecRouter: text messages and commands of one user go through the
\* router, with two handlers in flight at once; cb_add starts the sessions.
NextRouter ==
    \E t \in Tasks :
        \/ text_main_a(t)
        \/ text_main_b(t)
        \/ text_edit(t)
        \/ cb_add_set_state(t)
        \/ add_word(t)
        \/ add_commit(t)
        \/ msg_add_clear(t)
        \/ \E message_id \in MessageIds : cb_add(t, 1, message_id, "A")
        \/ \E text \in RouterTexts : message(t, 1, text)

SpecRouter == Init /\ [][NextRouter]_vars

\* ------------------------------------------------------------ properties
\* Task t takes the step: only the stepping task changes its position.
Stepped(t) ==
    \/ tasks'[t].pc # tasks[t].pc
    \/ tasks'[t].h # tasks[t].h
    \/ tasks'[t].i # tasks[t].i

\* A handler h starts in slot t.
Starts(t, h) == tasks[t].pc = "done" /\ tasks'[t].h = h /\ tasks'[t].pc # "done"

\* The row a storage call of task t is about.
RowOf(t) == Row(tasks[t].user, tasks[t].list_name, tasks[t].word)

Session(user_id) == <<fsm_state[user_id], fsm_data[user_id]>>
Idle(user_id) == fsm_state[user_id] = "None" /\ fsm_data[user_id] = EmptyDict
Count(seq, w) == Cardinality({k \in 1..Len(seq) : seq[k] = w})

\* C1 (SpecStore): a cb_do_remove started from a picker button deletes the
\* word that button showed, or deletes nothing.
C1_RemovesOnlyTheShownWord ==
    \A t \in Tasks :
        (tasks[t].h = "cb_do_remove" /\ tasks[t].shown # None /\ tasks[t].ok)
            => tasks[t].word = tasks[t].shown

\* No (user_id, list_name, word) is stored twice.
NoDuplicateRows == \A r \in BagToSet(db) : CopiesIn(r, db) = 1

\* What a step of Storage.add_word does and returns.
C2_AddStep(t) ==
    /\ (At(t, "msg_add", "add_word") /\ Stepped(t)) =>
          LET word == strip(tasks[t].lines[tasks[t].i])
              row == Row(tasks[t].user, tasks[t].list_name, word)
          IN  /\ db' = db
              /\ IF row \in BagToSet(db)
                 THEN /\ tasks'[t].ok = FALSE
                      /\ tasks'[t].skipped = tasks[t].skipped + 1
                      /\ tasks'[t].added = tasks[t].added
                      /\ Count(get_words(tasks[t].user, tasks[t].list_name), word) = 1
                 ELSE tasks'[t].pc = "add_commit"
    /\ (At(t, "msg_add", "add_commit") /\ Stepped(t)) =>
          /\ tasks'[t].ok = TRUE
          /\ tasks'[t].added = tasks[t].added + 1
          /\ RowOf(t) \notin BagToSet(db)
          /\ Count(SelectWords(db', tasks[t].user, tasks[t].list_name), tasks[t].word) = 1

\* C2 (SpecStore): no row occurs twice in the table; add_word of a word that
\* is in the list returns False and leaves the table as it is; add_word of a
\* word that is not commits it and returns True; either way get_words
\* afterwards holds the word once.
C2_UniqueWords == []NoDuplicateRows /\ [][\A t \in Tasks : C2_AddStep(t)]_vars

\* C2 witness: the second add of a word has just been rejected.
C2_Witness ==
    \E t \in Tasks :
        /\ tasks[t].h = "msg_add" /\ tasks[t].i > 1
        /\ tasks[t].ok = FALSE /\ tasks[t].skipped = 1
        /\ CopiesIn(Row(tasks[t].user, tasks[t].list_name, tasks[t].lines[tasks[t].i - 1]), db) = 1

\* What the steps of cb_add and msg_add do to the session and the table.
C3_Step(t) ==
    /\ (At(t, "cb_add", "set_state") /\ Stepped(t)) =>
          /\ fsm_state'[tasks[t].user] = "waiting_add"
          /\ fsm_data'[tasks[t].user] =
                [list_name |-> tasks[t].list_name, menu_message_id |-> tasks[t].message_id]
    /\ Starts(t, "msg_add") =>
          /\ tasks'[t].list_name = fsm_data[tasks'[t].user].list_name
          /\ tasks'[t].menu_message_id = fsm_data[tasks'[t].user].menu_message_id
    /\ (tasks[t].h = "msg_add" /\ Stepped(t) /\ ~Free(t)) =>
          /\ \A l \in ListNames \ {tasks[t].list_name} :
                RowsOf(db', tasks[t].user, l) = RowsOf(db, tasks[t].user, l)
          /\ tasks'[t].list_name = tasks[t].list_name
          /\ tasks'[t].menu_message_id = tasks[t].menu_message_id
          /\ tasks'[t].pc = "done" =>
                /\ tasks'[t].render.kind = "edit"
                /\ tasks'[t].render.list_name = tasks[t].list_name
                /\ tasks'[t].render.target = tasks[t].menu_message_id

\* C3 (SpecSession): cb_add replaces the whole session by its own list and
\* message; msg_add takes list and anchor from the session as it is when the
\* text arrives, writes rows of that list only and renders at that anchor.
C3_LastStartWins == [][\A t \in Tasks : C3_Step(t)]_vars

\* C3 witness: after add sessions were started for A at message 1 and for B
\* at message 2, a text has been added to B and shown at message 2.
C3_Witness ==
    \E s, t \in Tasks :
        /\ tasks[s].h = "cb_add" /\ tasks[s].pc = "done"
        /\ tasks[s].list_name = "A" /\ tasks[s].message_id = 1
        /\ tasks[t].h = "msg_add" /\ tasks[t].pc = "done"
        /\ tasks[t].list_name = "B" /\ tasks[t].added = 1
        /\ tasks[t].render.target = 2
        /\ RowsOf(db, 1, "A") = {}
        /\ Idle(1)

\* C4 (Spec): once cb_back or cb_remove_back has run, the user has no session.
C4_BackEndsSession ==
    \A t \in Tasks :
        (tasks[t].h \in {"cb_back", "cb_remove_back"} /\ tasks[t].pc = "done")
            => Idle(tasks[t].user)

\* The steps that may change the session of user_id, with what they make it.
SessionStep(t, user_id) ==
    \/ /\ At(t, "msg_add", "delete") /\ Stepped(t) /\ tasks[t].user = user_id
       /\ Idle(user_id)'
    \/ /\ \E h \in {"cmd_start", "cmd_menu", "cb_edit", "cb_back"} : Starts(t, h)
       /\ tasks'[t].user = user_id
       /\ Idle(user_id)'
    \/ /\ At(t, "cb_add", "set_state") /\ Stepped(t) /\ tasks[t].user = user_id
       /\ fsm_state'[user_id] = "waiting_add"
       /\ fsm_data'[user_id].list_name = tasks[t].list_name
       /\ fsm_data'[user_id].menu_message_id = tasks[t].message_id

\* C5 (Spec): the session of a user changes only in a step of that user's
\* msg_add (its state.clear), cmd_start, cmd_menu, cb_edit, cb_back or cb_add
\* (its set_state); no step of cb_roll, cb_remove_show_list, cb_remove_back,
\* cb_do_remove or cb_clear changes it.
C5_SessionChangesOnlyBy ==
    [][\A user_id \in Users :
          Session(user_id)' # Session(user_id) => \E t \in Tasks : SessionStep(t, user_id)]_vars

\* C5 witness: a session is waiting for text after cb_clear has run.
C5_Witness ==
    \E t \in Tasks :
        /\ tasks[t].h = "cb_clear" /\ tasks[t].pc = "done"
        /\ fsm_state[tasks[t].user] = "waiting_add"
        /\ {"list_name", "menu_message_id"} \subseteq DOMAIN fsm_data[tasks[t].user]

\* C6 (Spec): once msg_add has gone past its state.clear(), the user has no
\* session, whatever the text held.
C6_SubmitEndsSession ==
    \A t \in Tasks :
        (tasks[t].h = "msg_add" /\ tasks[t].error = "" /\ tasks[t].pc \in {"text_edit", "done"})
            => Idle(tasks[t].user)

\* C6 witness: msg_add has finished a text whose every line was a duplicate.
C6_Witness ==
    \E t \in Tasks :
        /\ tasks[t].h = "msg_add" /\ tasks[t].pc = "done"
        /\ tasks[t].added = 0 /\ tasks[t].skipped > 0
        /\ Idle(tasks[t].user)

\* The trimmed non-blank lines of a text, read off its characters.
SameLine(text, j, k) == \A m \in j..(k - 1) : text[m] # "\n"

\* The positions where the trimmed content of a non-blank line starts.
LineStarts(text) ==
    {k \in 1..Len(text) :
        /\ text[k] \notin Whitespace
        /\ \A j \in 1..(k - 1) : SameLine(text, j, k) => text[j] \in Whitespace}

\* Where the trimmed content of the line that starts at k ends.
LineEnd(text, k) ==
    CHOOSE e \in k..Len(text) :
        /\ text[e] \notin Whitespace
        /\ SameLine(text, k, e)
        /\ \A f \in (e + 1)..Len(text) : SameLine(text, k, f) => text[f] \in Whitespace

TrimmedLines(text) ==
    LET starts == LineStarts(text)
        nth(n) == CHOOSE k \in starts : Cardinality({j \in starts : j < k}) = n - 1
    IN  [n \in 1..Cardinality(starts) |-> SubSeq(text, nth(n), LineEnd(text, nth(n)))]

\* The words of list A in InitText.
TextWordsBefore == {<<"b">>}

\* C7 (SpecText): when the loop of msg_add is over, its lines are the trimmed
\* non-blank lines of the text in their order, every one of them was passed
\* to add_word, added counts the distinct lines that were not in the list,
\* skipped counts the other lines, and the list holds the old and the new
\* words.
C7_BulkAddTally ==
    \A t \in Tasks :
        (tasks[t].h = "msg_add" /\ tasks[t].pc \in {"delete", "text_edit", "done"}) =>
            /\ tasks[t].lines = TrimmedLines(tasks[t].text)
            /\ tasks[t].i = Len(tasks[t].lines) + 1
            /\ tasks[t].added = Cardinality(Range(tasks[t].lines) \ TextWordsBefore)
            /\ tasks[t].skipped = Len(tasks[t].lines) - tasks[t].added
            /\ tasks[t].added + tasks[t].skipped = Cardinality(LineStarts(tasks[t].text))
            /\ Range(get_words(tasks[t].user, tasks[t].list_name))
                  = TextWordsBefore \cup Range(tasks[t].lines)

\* C7 witness: the text a, (empty), (two spaces), a, b has been processed
\* on the list that held b: one word added, two lines skipped.
C7_Witness ==
    \E t \in Tasks :
        /\ tasks[t].h = "msg_add" /\ tasks[t].pc = "done"
        /\ tasks[t].text = ExampleText
        /\ tasks[t].added = 1 /\ tasks[t].skipped = 2
        /\ get_words(1, "A") = << <<"a">>, <<"b">> >>

\* The index of task t is no position of the list as it is now.
InvalidIndex(t) ==
    \/ tasks[t].index < 0
    \/ tasks[t].index >= Len(get_words(tasks[t].user, tasks[t].list_name))

\* The steps of cb_do_remove on such an index.
C8_Step(t) ==
    /\ (At(t, "cb_do_remove", "get_words") /\ Stepped(t) /\ InvalidIndex(t)) =>
          /\ db' = db
          /\ tasks'[t].pc = "text_edit"
          /\ tasks'[t].word = None
          /\ tasks'[t].suffix = ""
          /\ tasks'[t].error = ""
    /\ (At(t, "cb_do_remove", "text_edit") /\ Stepped(t) /\ tasks[t].word = None) =>
          /\ db' = db
          /\ tasks'[t].pc = "done"
          /\ tasks'[t].error = ""
          /\ tasks'[t].render.kind = "edit"
          /\ tasks'[t].render.suffix = ""
          /\ tasks'[t].render.list_name = tasks[t].list_name
          /\ tasks'[t].render.words = get_words(tasks[t].user, tasks[t].list_name)

\* C8 (SpecStore): when cb_do_remove finds its index below 0 or not below
\* the length of the list it has just read, it writes nothing and sends the
\* editor view of the list without a suffix.
C8_StaleIndexIsNoOp == [][\A t \in Tasks : C8_Step(t)]_vars

\* C8 witness: a button of a picker was pressed when the list had become
\* shorter than its index, and the plain editor view was sent.
C8_Witness ==
    \E t \in Tasks :
        /\ tasks[t].h = "cb_do_remove" /\ tasks[t].pc = "done"
        /\ tasks[t].shown # None /\ tasks[t].word = None
        /\ tasks[t].index >= tasks[t].render.count
        /\ tasks[t].render.kind = "edit" /\ tasks[t].render.suffix = ""

\* C9 (Spec): roll returns (None, None) exactly when list A or list B of the
\* user is empty, and otherwise a word of list A and a word of list B.
C9_PickPair ==
    \A t \in Tasks :
        (tasks[t].h = "cb_roll" /\ tasks[t].pc = "done") =>
            LET rows_a == RowsOf(db, tasks[t].user, "A")
                rows_b == RowsOf(db, tasks[t].user, "B")
            IN  /\ tasks[t].pair = <<None, None>> <=> (rows_a = {} \/ rows_b = {})
                /\ tasks[t].pair # <<None, None>> =>
                      /\ Row(tasks[t].user, "A", tasks[t].pair[1]) \in rows_a
                      /\ Row(tasks[t].user, "B", tasks[t].pair[2]) \in rows_b
                /\ tasks[t].render.kind = "roll_empty" <=> tasks[t].pair = <<None, None>>

\* C9 witness: a roll on two lists of one word each gave those two words.
C9_Witness ==
    \E t \in Tasks :
        /\ tasks[t].h = "cb_roll" /\ tasks[t].pc = "done"
        /\ RowsOf(db, tasks[t].user, "A") = {Row(tasks[t].user, "A", <<"a">>)}
        /\ RowsOf(db, tasks[t].user, "B") = {Row(tasks[t].user, "B", <<"b">>)}
        /\ tasks[t].pair = << <<"a">>, <<"b">> >>
        /\ tasks[t].render.kind = "roll"

\* The effect and the result of each storage call that writes.
C10_Step(t) ==
    /\ (At(t, "msg_add", "add_word") /\ Stepped(t) /\ tasks'[t].pc # "add_commit") =>
          /\ db' = db
          /\ tasks'[t].ok = FALSE
          /\ Row(tasks[t].user, tasks[t].list_name, strip(tasks[t].lines[tasks[t].i]))
                \in BagToSet(db)
    /\ (At(t, "msg_add", "add_commit") /\ Stepped(t)) =>
          /\ RowOf(t) \notin BagToSet(db)
          /\ db' = db (+) SetToBag({RowOf(t)})
          /\ tasks'[t].ok = TRUE
    /\ (At(t, "cb_do_remove", "remove_commit") /\ Stepped(t)) =>
          /\ tasks[t].ok <=> RowOf(t) \in BagToSet(db)
          /\ BagToSet(db') = BagToSet(db) \ {RowOf(t)}
          /\ \A r \in BagToSet(db') : CopiesIn(r, db') = CopiesIn(r, db)
    /\ (At(t, "cb_clear", "clear_commit") /\ Stepped(t)) =>
          /\ BagToSet(db') = BagToSet(db) \ RowsOf(db, tasks[t].user, tasks[t].list_name)
          /\ \A r \in BagToSet(db') : CopiesIn(r, db') = CopiesIn(r, db)

\* The table changes only in a commit.
C10_Writes ==
    db' # db => \E t \in Tasks :
                    /\ Stepped(t)
                    /\ tasks[t].pc \in {"add_commit", "remove_commit", "clear_commit"}

\* C10 (SpecStore): the table changes only in the commit of one call and
\* then by the whole effect of that call; and each call returns what it
\* would return if it ran alone at that moment (add: True for its commit,
\* False when the word is in the list; remove: True exactly when its commit
\* deletes a row).
C10_SerialStorage == [][C10_Writes /\ \A t \in Tasks : C10_Step(t)]_vars

\* C10 witness: two add_word calls for the same word of the same list are in
\* flight, one before its commit and one before its INSERT.
C10_Witness ==
    \E s, t \in Tasks :
        /\ At(s, "msg_add", "add_commit") /\ At(t, "msg_add", "add_word")
        /\ tasks[s].user = tasks[t].user /\ tasks[s].list_name = tasks[t].list_name
        /\ strip(tasks[t].lines[tasks[t].i]) = tasks[s].word

\* The rows of user_id, each with its number of copies.
OwnRows(table, user_id) ==
    [r \in {q \in BagToSet(table) : q[1] = user_id} |-> table[r]]

\* The words of list_name that user_id owns.
OwnWords(table, user_id, list_name) ==
    {r[3] : r \in {q \in BagToSet(table) : q[1] = user_id /\ q[2] = list_name}}

\* A step of a handler of one user, seen from another user v: v's rows and
\* session stay, and what the handler reads and shows are its own user's rows.
C11_Step(t) ==
    Stepped(t) =>
        LET u == tasks'[t].user
        IN  /\ \A v \in Users \ {u} :
                  /\ OwnRows(db', v) = OwnRows(db, v)
                  /\ Session(v)' = Session(v)
            /\ (tasks'[t].pc = "done" /\ tasks'[t].render.kind \in {"edit", "picker"}) =>
                  /\ Range(tasks'[t].render.words) = OwnWords(db, u, tasks'[t].render.list_name)
                  /\ Len(tasks'[t].render.words) =
                        Cardinality(OwnWords(db, u, tasks'[t].render.list_name))
            /\ tasks[t].pc \in {"text_main_a", "roll_a"} =>
                  /\ Range(tasks'[t].a) = OwnWords(db, u, "A")
                  /\ Len(tasks'[t].a) = Cardinality(OwnWords(db, u, "A"))
            /\ (tasks'[t].pc = "done" /\ tasks'[t].render.kind = "main") =>
                  /\ tasks'[t].render.count = Len(tasks[t].a)
                  /\ tasks'[t].render.count_b = Cardinality(OwnWords(db, u, "B"))
            /\ (tasks'[t].pc = "done" /\ tasks'[t].render.kind = "roll") =>
                  /\ tasks'[t].render.words[1] \in Range(tasks[t].a)
                  /\ tasks'[t].render.words[2] \in OwnWords(db, u, "B")

\* C11 (SpecUsers): no step of a handler of user U changes the rows or the
\* session of another user V, and every screen a handler of U sends shows
\* the rows of U and of nobody else.
C11_PartitionByUser == [][\A t \in Tasks : C11_Step(t)]_vars

\* C11 witness: user 2 has cleared its list A and been shown an empty list
\* while user 1 holds a word in list A and waits for text.
C11_Witness ==
    \E t \in Tasks :
        /\ tasks[t].h = "cb_clear" /\ tasks[t].pc = "done" /\ tasks[t].user = 2
        /\ tasks[t].render.count = 0
        /\ OwnWords(db, 1, "A") = {<<"a">>}
        /\ fsm_state[1] = "waiting_add"

\* What the steps of Storage.remove_word do and return.
C12_Step(t) ==
    /\ (At(t, "cb_do_remove", "remove_word") /\ Stepped(t)) =>
          /\ db' = db
          /\ tasks'[t].ok <=> RowOf(t) \in BagToSet(db)
    /\ (At(t, "cb_do_remove", "remove_commit") /\ Stepped(t)) =>
          /\ IF RowOf(t) \in BagToSet(db)
             THEN /\ tasks[t].ok
                  /\ BagToSet(db') = BagToSet(db) \ {RowOf(t)}
                  /\ \A r \in BagToSet(db') : CopiesIn(r, db') = CopiesIn(r, db)
             ELSE /\ ~tasks[t].ok
                  /\ db' = db
          /\ tasks'[t].suffix = IF tasks[t].ok THEN "removed" ELSE "not_found"

\* C12 (SpecStore): remove_word of a word that is not in the list returns
\* False and leaves the table as it is; remove_word of a word that is in the
\* list deletes that row and no other and returns True.
C12_RemoveWord == [][\A t \in Tasks : C12_Step(t)]_vars

\* C12 witness: the same word was removed twice in a row: the first call
\* returned True, the second False, and the list is as the first left it.
C12_Witness ==
    \E s, t \in Tasks :
        /\ tasks[s].h = "cb_do_remove" /\ tasks[s].pc = "done"
        /\ tasks[t].h = "cb_do_remove" /\ tasks[t].pc = "done"
        /\ tasks[s].word # None /\ tasks[s].word = tasks[t].word
        /\ tasks[s].list_name = tasks[t].list_name
        /\ tasks[s].ok /\ tasks[s].render.suffix = "removed"
        /\ ~tasks[t].ok /\ tasks[t].render.suffix = "not_found"
        /\ tasks[t].render.words = tasks[s].render.words
        /\ RowOf(s) \notin BagToSet(db)

\* A text without its leading and trailing whitespace, read off its
\* characters.
Trimmed(w) ==
    LET inked == {k \in 1..Len(w) : w[k] \notin Whitespace}
    IN  IF inked = {} THEN <<>>
        ELSE SubSeq(w, CHOOSE k \in inked : \A j \in inked : k <= j,
                       CHOOSE k \in inked : \A j \in inked : k >= j)

\* Every stored word is non-empty and has no whitespace at either end.
StoredWordsTrimmed ==
    \A r \in BagToSet(db) :
        /\ r[3] # <<>>
        /\ r[3][1] \notin Whitespace
        /\ r[3][Len(r[3])] \notin Whitespace

\* add_word of a text does what add_word of the trimmed text does.
C13_Step(t) ==
    /\ (At(t, "msg_add", "add_word") /\ Stepped(t)) =>
          LET word == Trimmed(tasks[t].lines[tasks[t].i])
              row == Row(tasks[t].user, tasks[t].list_name, word)
          IN  /\ db' = db
              /\ IF word = <<>> \/ row \in BagToSet(db)
                 THEN /\ tasks'[t].ok = FALSE
                      /\ tasks'[t].pc # "add_commit"
                      /\ db_writer' = db_writer
                 ELSE /\ tasks'[t].pc = "add_commit"
                      /\ tasks'[t].word = word
    /\ (At(t, "msg_add", "add_commit") /\ Stepped(t)) =>
          /\ tasks'[t].ok = TRUE
          /\ tasks[t].word = Trimmed(tasks[t].lines[tasks[t].i])
          /\ db' = db (+) SetToBag({RowOf(t)})

\* C13 (SpecAdd): add_word works on the trimmed text: it returns False and
\* writes nothing when the trimmed text is empty or is in the list, and
\* otherwise stores the trimmed text and returns True; every stored word is
\* non-empty and trimmed.
C13_AddTrims == []StoredWordsTrimmed /\ [][\A t \in Tasks : C13_Step(t)]_vars

\* C13 witness: add_word of " a" on the list that holds "a" has returned
\* False and left the list as it was.
C13_Witness ==
    /\ tasks[1].lines = << <<" ", "a">> >>
    /\ tasks[1].i = 2 /\ tasks[1].ok = FALSE /\ tasks[1].skipped = 1
    /\ db = SetToBag({Row(1, "A", <<"a">>)})

\* What the steps of cb_clear do: the commit of clear_list, then the editor
\* view of the list.
C14_Step(t) ==
    /\ (At(t, "cb_clear", "clear_commit") /\ Stepped(t)) =>
          LET u == tasks[t].user
              l == tasks[t].list_name
          IN  /\ OwnWords(db', u, l) = {}
              /\ BagToSet(db') = {r \in BagToSet(db) : r[1] # u \/ r[2] # l}
              /\ \A r \in BagToSet(db') : CopiesIn(r, db') = CopiesIn(r, db)
              /\ OwnWords(db, u, l) = {} => db' = db
    /\ (At(t, "cb_clear", "text_edit") /\ Stepped(t)) =>
          /\ db' = db
          /\ OwnWords(db, tasks[t].user, tasks[t].list_name) = {} =>
                /\ tasks'[t].render.kind = "edit"
                /\ tasks'[t].render.list_name = tasks[t].list_name
                /\ tasks'[t].render.words = <<>>
                /\ tasks'[t].render.count = 0

\* C14 (SpecUsers): the commit of clear_list leaves no row of its (user,
\* list) and every other row as it was, and changes nothing when the list was
\* empty; get_words after it, with no add in between, returns the empty list.
C14_ClearList == [][\A t \in Tasks : C14_Step(t)]_vars

\* C14 witness: user 1 was shown list A with the word it added, then cleared
\* list A and was shown an empty list; its list B still holds its word.
C14_Witness ==
    \E s, t \in Tasks :
        /\ tasks[s].h = "msg_add" /\ tasks[s].pc = "done" /\ tasks[s].user = 1
        /\ tasks[s].render.list_name = "A" /\ tasks[s].render.words = << <<"a">> >>
        /\ tasks[t].h = "cb_clear" /\ tasks[t].pc = "done" /\ tasks[t].user = 1
        /\ tasks[t].list_name = "A" /\ tasks[t].render.count = 0
        /\ OwnWords(db, 1, "A") = {}
        /\ OwnWords(db, 1, "B") = {<<"b">>}

\* Word v comes before word w: at the first position where they differ, v
\* has ended or has the smaller character.
Before(v, w) ==
    \E k \in 1..(Len(w)) :
        /\ k <= Len(v) + 1
        /\ \A j \in 1..(k - 1) : v[j] = w[j]
        /\ k = Len(v) + 1 \/ Ord(v[k]) < Ord(w[k])

\* seq is the words of (user_id, list_name), each once, in ascending order.
ListsExactly(seq, user_id, list_name) ==
    /\ Range(seq) = OwnWords(db, user_id, list_name)
    /\ Len(seq) = Cardinality(OwnWords(db, user_id, list_name))
    /\ \A k \in 1..(Len(seq) - 1) : Before(seq[k], seq[k + 1])

\* The steps that call get_words leave the table as it is, and the editor
\* view shows what get_words returned.
C15_Step(t) ==
    /\ (tasks[t].pc \in {"text_edit", "get_words", "text_main_a", "text_main_b",
                        "roll_a", "roll_b"} /\ Stepped(t)) => db' = db
    /\ (tasks[t].pc = "text_edit" /\ Stepped(t)) =>
          /\ tasks'[t].render.words = get_words(tasks[t].user, tasks[t].list_name)
          /\ tasks'[t].render.count = Len(tasks'[t].render.words)

\* C15 (SpecText): get_words returns the words stored for (user, list), each
\* once and in ascending order of their characters, the empty sequence when
\* there is none, and it writes nothing.
C15_GetWords ==
    /\ [](\A u \in Users, l \in ListNames : ListsExactly(get_words(u, l), u, l))
    /\ [][\A t \in Tasks : C15_Step(t)]_vars

\* C15 witness: "ab" was added to the list that held "b", and the editor
\* view lists "ab" before "b".
C15_Witness ==
    \E t \in Tasks :
        /\ tasks[t].h = "msg_add" /\ tasks[t].pc = "done" /\ tasks[t].added = 1
        /\ tasks[t].render.words = << <<"a", "b">>, <<"b">> >>
        /\ get_words(1, "B") = <<>>

\* cb_do_remove has rejected its payload in this step.
Rejects(t) ==
    /\ tasks'[t] # tasks[t]
    /\ tasks'[t].h = "cb_do_remove"
    /\ tasks'[t].error # ""

\* C16 (Spec): when cb_do_remove rejects a payload without an index or with
\* an index that is no integer, the table and the session stay as they are,
\* the handler ends without an exception, and its message is written to the
\* menu message the button belongs to.
C16_MalformedPayload ==
    [][\A t \in Tasks :
          Rejects(t) =>
              /\ db' = db
              /\ \A u \in Users : Session(u)' = Session(u)
              /\ tasks'[t].pc = "done"
              /\ tasks'[t].error \in {"malformed", "ValueError"}
              /\ tasks'[t].render.kind = "error"
              /\ tasks'[t].render.target = tasks'[t].message_id]_vars

\* The steps of msg_add from message.delete() on: nothing in them depends
\* on whether the deletion succeeded.
C17_Step(t) ==
    /\ (At(t, "msg_add", "delete") /\ Stepped(t)) =>
          /\ tasks'[t] = [tasks[t] EXCEPT !.deleted = tasks'[t].deleted,
                                          !.suffix = "tally", !.pc = "text_edit"]
          /\ Idle(tasks[t].user)'
          /\ db' = db
    /\ (At(t, "msg_add", "text_edit") /\ Stepped(t)) =>
          /\ tasks'[t].pc = "done"
          /\ tasks'[t].error = ""
          /\ tasks'[t].added = tasks[t].added /\ tasks'[t].skipped = tasks[t].skipped
          /\ tasks'[t].render.kind = "edit"
          /\ tasks'[t].render.suffix = "tally"
          /\ tasks'[t].render.list_name = tasks[t].list_name
          /\ tasks'[t].render.target = tasks[t].menu_message_id
          /\ tasks'[t].render.words = get_words(tasks[t].user, tasks[t].list_name)
          /\ Idle(tasks[t].user)'
          /\ db' = db

\* C17 (Spec): whether message.delete() succeeds or raises, msg_add goes on
\* the same way: the words and the tallies of the loop stay, the session is
\* cleared, and the editor view with the tally is written to the anchor of
\* the session.
C17_DeleteIsBestEffort == [][\A t \in Tasks : C17_Step(t)]_vars

\* C17 witness: msg_add has finished after a deletion that failed: one word
\* added, no session, the editor view at the anchor.
C17_Witness ==
    \E t \in Tasks :
        /\ tasks[t].h = "msg_add" /\ tasks[t].pc = "done"
        /\ ~tasks[t].deleted /\ tasks[t].added = 1
        /\ Idle(tasks[t].user)
        /\ tasks[t].render.kind = "edit" /\ tasks[t].render.suffix = "tally"
        /\ tasks[t].render.target = tasks[t].menu_message_id
        /\ tasks[t].render.target \in MessageIds

\* The session of the user of task t is not the one the task read when it
\* started: another cb_add has replaced it since.
SessionReplaced(t) ==
    /\ fsm_state[tasks[t].user] = "waiting_add"
    /\ fsm_data[tasks[t].user] #
          [list_name |-> tasks[t].list_name, menu_message_id |-> tasks[t].menu_message_id]

\* C18 as claimed (SpecSession): msg_add ends only the session it was
\* started for: its state.clear() leaves a session that a later cb_add has
\* set in the meantime as it is.
C18_SubmitKeepsNewerSession ==
    [][\A t \in Tasks :
          (At(t, "msg_add", "delete") /\ Stepped(t) /\ SessionReplaced(t))
              => Session(tasks[t].user)' = Session(tasks[t].user)]_vars

\* C18 as amended (SpecSession): msg_add's state.clear() ends whatever
\* session the user has at that moment, also one that a cb_add has set while
\* the text was being processed; msg_add starts only for a user whose
\* session waits for text, so a text that follows is not taken as words.
C18_SubmitEndsAnySession ==
    [][\A t \in Tasks :
          /\ (At(t, "msg_add", "delete") /\ Stepped(t)) => Idle(tasks[t].user)'
          /\ Starts(t, "msg_add") => fsm_state[tasks'[t].user] = "waiting_add"]_vars

\* C18 witness: msg_add has added a word to list A and is about to clear
\* the session, which a cb_add has set to list B in the meantime.
C18_Witness ==
    \E t \in Tasks :
        /\ At(t, "msg_add", "delete")
        /\ tasks[t].list_name = "A" /\ tasks[t].added = 1
        /\ fsm_state[tasks[t].user] = "waiting_add"
        /\ fsm_data[tasks[t].user].list_name = "B"

\* A session that waits for text names a list and a menu message.
WaitingHasTarget ==
    \A u \in Users :
        fsm_state[u] = "waiting_add" =>
            /\ DOMAIN fsm_data[u] = {"list_name", "menu_message_id"}
            /\ fsm_data[u].list_name \in ListNames
            /\ fsm_data[u].menu_message_id \in MessageIds

\* The session data change only when a cb_add stores its own list and
\* message with the state, or when the session is cleared; msg_add finds
\* both keys in the session it reads.
C19_Step(t) ==
    /\ (tasks[t].pc = "done" /\ tasks'[t] # tasks[t] /\ tasks'[t].h = "msg_add") =>
          /\ tasks'[t].error = ""
          /\ tasks'[t].list_name = fsm_data[tasks'[t].user].list_name
          /\ tasks'[t].menu_message_id = fsm_data[tasks'[t].user].menu_message_id
    /\ (At(t, "cb_add", "set_state") /\ Stepped(t)) =>
          /\ fsm_state'[tasks[t].user] = "waiting_add"
          /\ fsm_data'[tasks[t].user] =
                [list_name |-> tasks[t].list_name, menu_message_id |-> tasks[t].message_id]

\* C19 (SpecSession): whenever the state of a user is waiting_add, the
\* session data hold the list and the message of the cb_add that set the
\* state last: no msg_add reads a session with a key missing or with the
\* values of an earlier cb_add.
C19_WaitingHasCurrentTarget ==
    /\ []WaitingHasTarget
    /\ [][/\ \A t \in Tasks : C19_Step(t)
          /\ \A u \in Users :
                Session(u)' # Session(u) =>
                    \/ Idle(u)'
                    \/ \E t \in Tasks : At(t, "cb_add", "set_state") /\ Stepped(t)
                                             /\ tasks[t].user = u]_vars

\* C19 witness: cb_add has set the session to list B at message 2, and a
\* msg_add that started after it has read list B and message 2.
C19_Witness ==
    \E s, t \in Tasks :
        /\ tasks[s].h = "cb_add" /\ tasks[s].pc = "done"
        /\ tasks[s].list_name = "B" /\ tasks[s].message_id = 2
        /\ At(t, "msg_add", "add_word")
        /\ tasks[t].list_name = "B" /\ tasks[t].menu_message_id = 2
        /\ fsm_state[tasks[t].user] = "waiting_add"
        /\ fsm_data[tasks[t].user] = [list_name |-> "B", menu_message_id |-> 2]

\* The text begins, after whitespace, with a command word that ends the
\* text or is followed by whitespace.
IsCommandText(text) ==
    \E k \in 1..Len(text) :
        /\ text[k] \in {"/start", "/menu"}
        /\ \A j \in 1..(k - 1) : text[j] \in Whitespace
        /\ k = Len(text) \/ text[k + 1] \in Whitespace

\* Task t is a handler that this step has started.
Begins(t, h) == tasks[t].pc = "done" /\ tasks'[t] # tasks[t] /\ tasks'[t].h = h

\* What a step of task t may do when messages go through the router.
C20_Step(t) ==
    /\ Begins(t, "msg_add") =>
          /\ fsm_state[tasks'[t].user] = "waiting_add"
          /\ ~IsCommandText(tasks'[t].text)
    /\ (\E h \in {"cmd_start", "cmd_menu"} : Begins(t, h)) =>
          /\ fsm_state'[tasks'[t].user] = "None"
          /\ fsm_data'[tasks'[t].user] = EmptyDict
          /\ db' = db
    /\ (tasks[t].h \in {"cmd_start", "cmd_menu"} /\ Stepped(t)) => db' = db

\* C20 (SpecRouter): msg_add starts only for a user whose state is
\* waiting_add and never on a text that is a /start or /menu command; the
\* table and the sessions change only in steps of the handlers that were
\* started, so a text of an idle user changes nothing; and cmd_start and
\* cmd_menu end the session and write no word.
C20_TextIsAddOnlyWhileWaiting ==
    [][/\ \A t \in Tasks : C20_Step(t)
       /\ db' # db => \E t \in Tasks : tasks[t].h = "msg_add" /\ Stepped(t)
       /\ \A u \in Users :
             Session(u)' # Session(u) =>
                 \E t \in Tasks : tasks'[t].user = u /\ (Stepped(t) \/ Begins(t, tasks'[t].h))]_vars

\* C20 witness: a command arrived while the session that cb_add had set was
\* waiting for text: the main menu was sent, the session is over and no word
\* was stored.
C20_Witness ==
    \E s, t \in Tasks :
        /\ tasks[s].h = "cb_add" /\ tasks[s].pc = "done"
        /\ tasks[t].h \in {"cmd_start", "cmd_menu"} /\ tasks[t].pc = "done"
        /\ tasks[t].render.kind = "main"
        /\ tasks[t].user = tasks[s].user
        /\ Idle(tasks[t].user)
        /\ db = EmptyBag

====
